---------------------------- MODULE Spec2Model ----------------------------
(*************************************************************************)
(* Network extraction from ONNX models (youngbench/dataset/utils/        *)
(* extraction.py): extract_network, extract_networks, extract_from_fp    *)
(* and extract_from_gp, as a machine with an explicit call stack.        *)
(*                                                                       *)
(* A raw model is a record                                               *)
(*   [functions : Seq(FunctionProto), graph : GraphProto]                *)
(*   FunctionProto = [name, domain, node : Seq(NodeProto)]               *)
(*   GraphProto    = [node, initializer, input, value_info, output]      *)
(*   NodeProto     = [op_type, domain, input, output, attribute]         *)
(*   AttributeProto= [name, type, g, graphs]                             *)
(* Python dicts are functions over their key sets; lists are sequences.  *)
(* A Network object lives in the heap `networks`; its position there is  *)
(* the object's identity.                                                *)
(*                                                                       *)
(* The upload worker pool of younger/datasets/constructors/official/api/ *)
(* handle_complete.py (main, upload_instance) is the second machine of   *)
(* the module: its processes share the cache directory `cache`.          *)
(*************************************************************************)
EXTENDS Integers, Sequences, FiniteSets, TLC

VARIABLES
    model,          \* the raw model handed to the entry point
    entry,          \* "none" | "extract_network" | "extract_networks"
    deep_extract,   \* the deep_extract argument of the running call
    pc,             \* "idle" | "eager" | "main" | "done" | "failed"
    fp_networks,    \* the function registry: (name, domain) -> raw function or Network
    fidx,           \* position of the eager loop of extract_networks (1-based)
    deep_networks,  \* extract_networks' list of discovered Networks
    stack,          \* activation records of extract_from_fp / extract_from_gp
    networks,       \* heap of constructed Network objects
    origin,         \* history: the proto each Network of the heap was built from
    result,         \* the value returned by the entry point
    error,          \* the exception that ended the call, "none" if none
    runs,           \* history: what the earlier calls on this model came to
    phase,          \* main of the uploader: "idle" | "running" | "done" | "failed"
    meta,           \* the meta argument of main
    dataset,        \* the instance directories: the model source each name carries
    cache,          \* the files in the cache directory
    queue,          \* position of the next task the pool hands out (1-based)
    task,           \* the instance each worker process is uploading, 0 if none
    wpc,            \* each worker's position in upload_instance
    failure         \* the exception that ended the upload, "none" if none

vars == <<model, entry, deep_extract, pc, fp_networks, fidx, deep_networks,
          stack, networks, origin, result, error, runs,
          phase, meta, dataset, cache, queue, task, wpc, failure>>

\* The state of the uploader
upload == <<phase, meta, dataset, cache, queue, task, wpc, failure>>

\* The state of the extraction
extraction == <<model, entry, deep_extract, pc, fp_networks, fidx, deep_networks,
                stack, networks, origin, result, error, runs>>

---------------------------------------------------------------------------
(* Python helpers *)

Put(d, k, v) == [x \in (DOMAIN d) \cup {k} |-> IF x = k THEN v ELSE d[x]]

Min(a, b) == IF a < b THEN a ELSE b

str(n) == ToString(n)

RECURSIVE SeqToSet(_)
SeqToSet(s) == IF s = <<>> THEN {} ELSE {Head(s)} \cup SeqToSet(Tail(s))

---------------------------------------------------------------------------
(* External tables: operator domains, attribute types, operator schemas *)

ONNXOperatorDomain == {"", "ai.onnx.ml", "ai.onnx.preview.training"}

GRAPH == "GRAPH"

GRAPHS == "GRAPHS"

Single(n) == [name |-> n, variadic |-> FALSE]

Variadic(n) == [name |-> n, variadic |-> TRUE]

\* onnx.defs.get_schema(op_type, domain): the ordered input and output slots.
get_schema(op_type) ==
    CASE op_type = "Add"  -> [inputs  |-> <<Single("A"), Single("B")>>,
                              outputs |-> <<Single("C")>>]
      [] op_type = "Cat"  -> [inputs  |-> <<Single("a"), Variadic("b")>>,
                              outputs |-> <<Single("y"), Variadic("z")>>]
      [] op_type = "If"   -> [inputs  |-> <<Single("cond")>>,
                              outputs |-> <<Variadic("outputs")>>]
      [] op_type = "Scan" -> [inputs  |-> <<Variadic("initial")>>,
                              outputs |-> <<Variadic("final")>>]

---------------------------------------------------------------------------
(* Slot naming *)

\* operator.inputs[index].name + (f'_{variadic_index}' if variadic_index else '')
SlotName(slot, variadic_index) ==
    slot.name \o (IF variadic_index # 0 THEN "_" \o str(variadic_index) ELSE "")

\* The variadic test and the slot lookup shared by every naming loop:
\*   if index >= len(slots) and slots[-1].option == Variadic:
\*       index = len(slots) - 1; variadic_index += 1
\*   name = slots[index].name + suffix          (IndexError when out of range)
Bind(slots, index, variadic_index) ==
    LET n == Len(slots) IN
    IF n = 0
    THEN [err |-> "IndexError", index |-> index, variadic_index |-> variadic_index, name |-> ""]
    ELSE LET extra == index >= n /\ slots[n].variadic
             idx   == IF extra THEN n - 1 ELSE index
             vi    == IF extra THEN variadic_index + 1 ELSE variadic_index
         IN  IF idx >= n
             THEN [err |-> "IndexError", index |-> idx, variadic_index |-> vi, name |-> ""]
             ELSE [err |-> "none", index |-> idx, variadic_index |-> vi,
                   name |-> SlotName(slots[idx + 1], vi)]

\* index = min(index, len(slots) - 1)
Clamp(index, slots) == Min(index, Len(slots) - 1)

\* State of a naming loop: the dict being filled (d), the i2x/o2x index (x),
\* the running variadic_index and the exception raised, if any.
LoopState(x, variadic_index) ==
    [err |-> "none", variadic_index |-> variadic_index, x |-> x, d |-> <<>>]

XEntry(nid, opn, opi) == [nid |-> nid, opn |-> opn, opi |-> opi]

\* extract_from_fp, built-in node: operands loop
RECURSIVE FpOperands(_, _, _, _, _)
FpOperands(node, operator, nid, k, st) ==
    IF k > Len(node.input) \/ st.err # "none" THEN st
    ELSE LET input == node.input[k]
             b     == Bind(operator.inputs, k - 1, st.variadic_index)
         IN  IF b.err # "none" THEN [st EXCEPT !.err = b.err]
             ELSE FpOperands(node, operator, nid, k + 1,
                     [err |-> "none", variadic_index |-> b.variadic_index,
                      x |-> Put(st.x, input, XEntry(nid, b.name, b.index)),
                      d |-> Put(st.d, b.name, input)])

\* extract_from_fp, built-in node: results loop
RECURSIVE FpResults(_, _, _, _, _)
FpResults(node, operator, nid, k, st) ==
    IF k > Len(node.output) \/ st.err # "none" THEN st
    ELSE LET output == node.output[k]
             b      == Bind(operator.outputs, k - 1, st.variadic_index)
         IN  IF b.err # "none" THEN [st EXCEPT !.err = b.err]
             ELSE FpResults(node, operator, nid, k + 1,
                     [err |-> "none", variadic_index |-> b.variadic_index,
                      x |-> Put(st.x, output, XEntry(nid, b.name, b.index)),
                      d |-> Put(st.d, b.name, output)])

\* extract_from_gp, built-in node: parameters loop
RECURSIVE GpParameters(_, _, _, _, _)
GpParameters(node, operator, pm_info, k, st) ==
    IF k > Len(node.input) \/ st.err # "none" THEN st
    ELSE LET input == node.input[k] IN
         IF input \notin DOMAIN pm_info
         THEN GpParameters(node, operator, pm_info, k + 1, st)
         ELSE LET b == Bind(operator.inputs, k - 1, st.variadic_index)
              IN  IF b.err # "none" THEN [st EXCEPT !.err = b.err]
                  ELSE GpParameters(node, operator, pm_info, k + 1,
                          [st EXCEPT !.variadic_index = b.variadic_index,
                                     !.d = Put(st.d, b.name, pm_info[input])])

\* extract_from_gp, built-in node: operands loop
RECURSIVE GpOperands(_, _, _, _, _, _)
GpOperands(node, operator, io_info, nid, k, st) ==
    IF k > Len(node.input) \/ st.err # "none" THEN st
    ELSE LET input == node.input[k]
             index == Clamp(k - 1, operator.inputs)
         IN
         IF input \notin DOMAIN io_info
         THEN GpOperands(node, operator, io_info, nid, k + 1, st)
         ELSE LET b == Bind(operator.inputs, index, st.variadic_index)
              IN  IF b.err # "none" THEN [st EXCEPT !.err = b.err]
                  ELSE GpOperands(node, operator, io_info, nid, k + 1,
                          [err |-> "none", variadic_index |-> b.variadic_index,
                           x |-> Put(st.x, input, XEntry(nid, b.name, b.index)),
                           d |-> Put(st.d, b.name, io_info[input])])

\* extract_from_gp, built-in node: results loop
RECURSIVE GpResults(_, _, _, _, _, _)
GpResults(node, operator, io_info, nid, k, st) ==
    IF k > Len(node.output) \/ st.err # "none" THEN st
    ELSE LET output == node.output[k]
             index  == Clamp(k - 1, operator.outputs)
         IN
         IF output \notin DOMAIN io_info
         THEN GpResults(node, operator, io_info, nid, k + 1, st)
         ELSE LET b == Bind(operator.outputs, index, st.variadic_index)
              IN  IF b.err # "none" THEN [st EXCEPT !.err = b.err]
                  ELSE GpResults(node, operator, io_info, nid, k + 1,
                          [err |-> "none", variadic_index |-> b.variadic_index,
                           x |-> Put(st.x, output, XEntry(nid, b.name, b.index)),
                           d |-> Put(st.d, b.name, io_info[output])])

\* Function-call node (either level kind): slots are named by the raw value
\* names.  info = <<>> with filter FALSE in extract_from_fp (no descriptor
\* table there: the dict holds the value name itself).
RECURSIVE CallSlots(_, _, _, _, _, _)
CallSlots(values, filter, info, nid, k, st) ==
    IF k > Len(values) THEN st
    ELSE LET v == values[k] IN
         IF filter /\ v \notin DOMAIN info
         THEN CallSlots(values, filter, info, nid, k + 1, st)
         ELSE CallSlots(values, filter, info, nid, k + 1,
                 [st EXCEPT !.x = Put(st.x, v, XEntry(nid, v, k - 1)),
                            !.d = Put(st.d, v, IF filter THEN info[v] ELSE v)])

---------------------------------------------------------------------------
(* One graph level *)

\* pm_info[initializer.name] = dict(dims=['dims'], dataType=...)
RECURSIVE PmInfo(_, _, _)
PmInfo(initializer, k, pm_info) ==
    IF k > Len(initializer) THEN pm_info
    ELSE PmInfo(initializer, k + 1,
            Put(pm_info, initializer[k].name,
                [dims |-> <<"dims">>, dataType |-> initializer[k].dataType]))

\* io_info[value.name] = MessageToDict(value.type), over gp.input, then
\* gp.value_info, then gp.output
RECURSIVE IoInfo(_, _, _)
IoInfo(values, k, io_info) ==
    IF k > Len(values) THEN io_info
    ELSE IoInfo(values, k + 1, Put(io_info, values[k].name, values[k].type))

IsBuiltin(node) == node.domain \in ONNXOperatorDomain

IsGraphAttribute(attribute) == attribute.type = GRAPH \/ attribute.type = GRAPHS

\* The graphs an attribute carries: attribute.g, or attribute.graphs in order.
AttributeGraphs(attribute) ==
    IF attribute.type = GRAPH THEN <<attribute.g>>
    ELSE IF attribute.type = GRAPHS THEN attribute.graphs
    ELSE <<>>

\* json_format.MessageToDict(attribute) of an attribute that carries no graph
MessageToDict(attribute) ==
    [name |-> attribute.name, type |-> attribute.type, i |-> attribute.i]

Node(operator_type, operator_domain, attributes, parameters, operands, results) ==
    [operator_type |-> operator_type, operator_domain |-> operator_domain,
     attributes |-> attributes, parameters |-> parameters,
     operands |-> operands, results |-> results]

\* The locals of one running extract_from_fp / extract_from_gp.
NewFrame(kind, proto, is_sub) ==
    [kind |-> kind, proto |-> proto, is_sub |-> is_sub,
     nid |-> 0, ai |-> 1, gi |-> 1,
     attributes |-> <<>>, all_extracted |-> <<>>, all_deep_extracted |-> <<>>,
     nn_nodes |-> <<>>, i2x |-> <<>>, o2x |-> <<>>,
     pm_info |-> IF kind = "gp" THEN PmInfo(proto.initializer, 1, <<>>) ELSE <<>>,
     io_info |-> IF kind = "gp"
                 THEN IoInfo(proto.input \o proto.value_info \o proto.output, 1, <<>>)
                 ELSE <<>>,
     deep_networks |-> <<>>]

\* Every value name the edge loops visit, in their order: per node, its inputs
\* and then its outputs.
RECURSIVE ValueNames(_, _)
ValueNames(nodes, k) ==
    IF k > Len(nodes) THEN <<>>
    ELSE nodes[k].input \o nodes[k].output \o ValueNames(nodes, k + 1)

\* nn_graph.add_edge(u_nid, v_nid, u_opn=.., v_opn=.., u_opi=.., v_opi=..)
\* for every visited name found in both i2x and o2x
RECURSIVE AddEdges(_, _, _, _, _)
AddEdges(names, k, i2x, o2x, edges) ==
    IF k > Len(names) THEN edges
    ELSE LET v == names[k] IN
         IF v \in DOMAIN i2x /\ v \in DOMAIN o2x
         THEN AddEdges(names, k + 1, i2x, o2x,
                 Put(edges, <<o2x[v].nid, i2x[v].nid>>,
                     [u_opn |-> o2x[v].opn, v_opn |-> i2x[v].opn,
                      u_opi |-> o2x[v].opi, v_opi |-> i2x[v].opi]))
         ELSE AddEdges(names, k + 1, i2x, o2x, edges)

\* networkx.is_directed_acyclic_graph: repeatedly remove the vertices that
\* have no incoming edge from a remaining vertex.
RECURSIVE is_directed_acyclic_graph(_, _)
is_directed_acyclic_graph(V, E) ==
    IF V = {} THEN TRUE
    ELSE LET sources == {v \in V : ~ \E e \in E : e[2] = v /\ e[1] \in V}
         IN  IF sources = {} THEN FALSE
             ELSE is_directed_acyclic_graph(V \ sources, E)

Edges(frame) ==
    AddEdges(ValueNames(frame.proto.node, 1), 1, frame.i2x, frame.o2x, <<>>)

\* A mutation of IsDAG: the level is returned without the acyclicity test.
IsDAGMissing(frame) == TRUE

\* The assert that ends both extract_from_fp and extract_from_gp
IsDAG(frame) ==
    is_directed_acyclic_graph(DOMAIN frame.nn_nodes, DOMAIN Edges(frame))

\* A mutation of Network: extract_from_fp passes is_fnc=False.
NetworkNeverFnc(frame) ==
    [nn_nodes |-> frame.nn_nodes, nn_edges |-> Edges(frame),
     nn_size |-> frame.nid, is_sub |-> frame.is_sub, is_fnc |-> FALSE]

\* Network(nn_graph=nn_graph, nn_nodes=nn_nodes, nn_size=nn_size, is_sub=is_sub, is_fnc=..)
Network(frame) ==
    [nn_nodes |-> frame.nn_nodes, nn_edges |-> Edges(frame),
     nn_size |-> frame.nid, is_sub |-> frame.is_sub, is_fnc |-> frame.kind = "fp"]

\* Network.identifier, of the Network at position ref of the heap
identifier(ref) == ref

---------------------------------------------------------------------------
(* The call stack *)

RecursionLimit == 4

Top == stack[Len(stack)]

Caller == stack[Len(stack) - 1]

\* The node a frame is working on (frame.nid counts the nodes already added)
InLoop(frame) == frame.nid < Len(frame.proto.node)

CurNode(frame) == frame.proto.node[frame.nid + 1]

Finished(frame) == frame.nid = Len(frame.proto.node)

SetTop(frame) == [stack EXCEPT ![Len(stack)] = frame]

Key(function) == <<function.name, function.domain>>

Raw(function) == [tag |-> "FunctionProto", fp |-> function]

Resolved(ref) == [tag |-> "Network", ref |-> ref]

\* A mutation of Raise: the failure is swallowed and the entry point returns
\* what was discovered so far.
RaiseReturnsPartial(e) ==
    /\ pc' = "done"
    /\ error' = e
    /\ stack' = <<>>
    /\ result' = [network |-> 0, deep_networks |-> deep_networks]
    /\ UNCHANGED <<model, runs, upload, entry, deep_extract, fp_networks, fidx, deep_networks,
                   networks, origin>>

\* A mutation of Raise: the failure puts the registry back as it was seeded.
RaiseUnresolving(e) ==
    /\ pc' = "failed"
    /\ error' = e
    /\ stack' = <<>>
    /\ fp_networks' = [key \in DOMAIN fp_networks |->
                          Raw(CHOOSE f \in SeqToSet(model.functions) : Key(f) = key)]
    /\ UNCHANGED <<model, runs, upload, entry, deep_extract, fidx, deep_networks,
                   networks, origin, result>>

\* An exception leaves every frame; the registry and the heap stay as they are.
Raise(e) ==
    /\ pc' = "failed"
    /\ error' = e
    /\ stack' = <<>>
    /\ UNCHANGED <<model, runs, upload, entry, deep_extract, fp_networks, fidx, deep_networks,
                   networks, origin, result>>

RaiseAfterNew(e, frame) ==
    /\ pc' = "failed"
    /\ error' = e
    /\ stack' = <<>>
    /\ networks' = Append(networks, Network(frame))
    /\ origin' = Append(origin, [kind |-> frame.kind, proto |-> frame.proto])
    /\ UNCHANGED <<model, runs, upload, entry, deep_extract, fp_networks, fidx, deep_networks, result>>

\* A nested call of extract_from_fp / extract_from_gp
Call(frame) ==
    IF Len(stack) >= RecursionLimit
    THEN Raise("RecursionError")
    ELSE /\ stack' = Append(stack, frame)
         /\ UNCHANGED <<model, runs, upload, entry, deep_extract, pc, fp_networks, fidx,
                        deep_networks, networks, origin, result, error>>

\* The Network object a finished frame constructs is put on the heap.
New(frame) ==
    /\ networks' = Append(networks, Network(frame))
    /\ origin' = Append(origin, [kind |-> frame.kind, proto |-> frame.proto])

NewRef == Len(networks) + 1

\* nn_graph.add_node(nid, ..); nn_nodes[nid] = node; nn_size += 1, and on to
\* the next node of the level
AddNode(frame, node, i2x, o2x) ==
    [frame EXCEPT !.nn_nodes = Put(frame.nn_nodes, str(frame.nid), node),
                  !.i2x = i2x, !.o2x = o2x,
                  !.nid = frame.nid + 1, !.ai = 1, !.gi = 1,
                  !.attributes = <<>>]

Step(frame) ==
    /\ stack' = SetTop(frame)
    /\ UNCHANGED <<model, runs, upload, entry, deep_extract, pc, fp_networks, fidx,
                   deep_networks, networks, origin, result, error>>

---------------------------------------------------------------------------
(* Entry points *)

\* fp_networks[(function.name, function.domain)] = function, in declaration order
RECURSIVE Seed(_, _, _)
Seed(functions, k, registry) ==
    IF k > Len(functions) THEN registry
    ELSE Seed(functions, k + 1, Put(registry, Key(functions[k]), Raw(functions[k])))

extract_network ==
    /\ pc = "idle"
    /\ entry' = "extract_network"
    /\ deep_extract' = FALSE
    /\ fp_networks' = <<>>
    /\ stack' = <<NewFrame("gp", model.graph, FALSE)>>
    /\ pc' = "main"
    /\ UNCHANGED <<model, runs, upload, fidx, deep_networks, networks, origin, result, error>>

\* A mutation of FreshRegistry: one registry is kept across calls.
KeptRegistry(functions) ==
    IF fp_networks = <<>> THEN Seed(functions, 1, <<>>) ELSE fp_networks

\* fp_networks = dict(), then seeded with every function of the model
FreshRegistry(functions) == Seed(functions, 1, <<>>)

extract_networks ==
    /\ pc = "idle"
    /\ \E d \in BOOLEAN : deep_extract' = d
    /\ entry' = "extract_networks"
    /\ fp_networks' = FreshRegistry(model.functions)
    /\ fidx' = 1
    /\ deep_networks' = <<>>
    /\ pc' = "eager"
    /\ UNCHANGED <<model, runs, upload, stack, networks, origin, result, error>>

\* A mutation of EagerUnresolved: the loop does not consult the registry.
EagerUnresolvedAlways(fp_network) == TRUE

\* isinstance(fp_network, onnx.FunctionProto) in the eager loop
EagerUnresolved(fp_network) == fp_network.tag = "FunctionProto"

\* The eager loop meets a function whose registry entry is still raw.
EagerExtract ==
    /\ pc = "eager" /\ stack = <<>>
    /\ fidx <= Len(model.functions)
    /\ LET function == model.functions[fidx] IN
       /\ EagerUnresolved(fp_networks[Key(function)])
       /\ Call(NewFrame("fp", function, TRUE))

\* A mutation of EagerKey: every eager extraction writes the first function's key.
EagerKeyFirst(function) == Key(model.functions[1])

\* The registry entry a finished eager extraction writes
EagerKey(function) == Key(function)

\* extract_from_fp returns to the eager loop.
ReturnToEager ==
    /\ pc = "eager" /\ Len(stack) = 1 /\ Finished(Top)
    /\ IF ~ IsDAG(Top) THEN Raise("AssertionError")
       ELSE /\ New(Top)
            /\ fp_networks' = [fp_networks EXCEPT
                                 ![EagerKey(model.functions[fidx])] = Resolved(NewRef)]
            /\ deep_networks' = Append(deep_networks, NewRef) \o Top.deep_networks
            /\ fidx' = fidx + 1
            /\ stack' = <<>>
            /\ UNCHANGED <<model, runs, upload, entry, deep_extract, pc, result, error>>

\* The eager loop meets a function whose registry entry is already a Network.
EagerAppend ==
    /\ pc = "eager" /\ stack = <<>>
    /\ fidx <= Len(model.functions)
    /\ LET fp_network == fp_networks[Key(model.functions[fidx])] IN
       /\ fp_network.tag = "Network"
       /\ deep_networks' = Append(deep_networks, fp_network.ref)
    /\ fidx' = fidx + 1
    /\ UNCHANGED <<model, runs, upload, entry, deep_extract, pc, fp_networks, stack,
                   networks, origin, result, error>>

\* A mutation of EagerDone: the main graph is not held back by the eager loop.
EagerDoneAtOnce == TRUE

\* `for function in onnx_model.functions` has run through every function
EagerDone == fidx > Len(model.functions)

\* The eager loop is over: extract the main graph.
ExtractMain ==
    /\ pc = "eager" /\ stack = <<>>
    /\ EagerDone
    /\ stack' = <<NewFrame("gp", model.graph, FALSE)>>
    /\ pc' = "main"
    /\ UNCHANGED <<model, runs, upload, entry, deep_extract, fp_networks, fidx, deep_networks,
                   networks, origin, result, error>>

\* extract_from_gp of the main graph returns to the entry point.
ReturnToMain ==
    /\ pc = "main" /\ Len(stack) = 1 /\ Finished(Top)
    /\ IF ~ IsDAG(Top) THEN Raise("AssertionError")
       ELSE /\ New(Top)
            /\ IF entry = "extract_network"
               THEN /\ result' = [network |-> NewRef]
                    /\ UNCHANGED deep_networks
               ELSE /\ deep_networks' = deep_networks \o Top.deep_networks
                    /\ result' = [network |-> NewRef, deep_networks |-> deep_networks']
            /\ pc' = "done"
            /\ stack' = <<>>
            /\ UNCHANGED <<model, runs, upload, entry, deep_extract, fp_networks, fidx, error>>

---------------------------------------------------------------------------
(* Built-in nodes: the attribute loop *)

AtAttribute(frame) ==
    /\ InLoop(frame)
    /\ IsBuiltin(CurNode(frame))
    /\ frame.ai <= Len(CurNode(frame).attribute)

CurAttribute(frame) == CurNode(frame).attribute[frame.ai]

\* attributes[attribute.name] = json_format.MessageToDict(attribute)
PlainAttribute ==
    /\ stack # <<>> /\ AtAttribute(Top)
    /\ ~ IsGraphAttribute(CurAttribute(Top))
    /\ Step([Top EXCEPT !.attributes = Put(Top.attributes, CurAttribute(Top).name,
                                           MessageToDict(CurAttribute(Top))),
                        !.ai = Top.ai + 1])

\* A mutation of Descend: the deep_extract flag is ignored.
DescendAlways(deep) == TRUE

\* `if deep_extract and attribute.type == ...`: whether the attribute loop
\* descends into the graphs of an attribute
Descend(deep) == deep

\* A mutation of AttributeIsSub: the nested call passes is_sub=False.
AttributeIsSubFalse == FALSE

\* is_sub=True of the nested extract_from_gp of an attribute's graph
AttributeIsSub == TRUE

\* extract_from_gp(attribute.g, ..) or extract_from_gp(attribute_g, ..) for the
\* next graph of the attribute
GraphAttributeCall ==
    /\ stack # <<>> /\ AtAttribute(Top)
    /\ IsGraphAttribute(CurAttribute(Top))
    /\ Descend(deep_extract)
    /\ Top.gi <= Len(AttributeGraphs(CurAttribute(Top)))
    /\ Call(NewFrame("gp", AttributeGraphs(CurAttribute(Top))[Top.gi], AttributeIsSub))

\* The nested extract_from_gp returns into the attribute loop:
\* all_extracted.append(extracted); all_deep_extracted.extend(deep_extracted)
ReturnToAttribute ==
    /\ Len(stack) >= 2 /\ Finished(Top)
    /\ IsBuiltin(CurNode(Caller))
    /\ IF ~ IsDAG(Top) THEN Raise("AssertionError")
       ELSE /\ New(Top)
            /\ stack' = [SubSeq(stack, 1, Len(stack) - 1) EXCEPT ![Len(stack) - 1] =
                  [Caller EXCEPT
                     !.all_extracted = Append(Caller.all_extracted, NewRef),
                     !.all_deep_extracted = Caller.all_deep_extracted \o Top.deep_networks,
                     !.gi = Caller.gi + 1]]
            /\ UNCHANGED <<model, runs, upload, entry, deep_extract, pc, fp_networks, fidx,
                           deep_networks, result, error>>

\* [extracted.identifier for extracted in all_extracted]
RECURSIVE Identifiers(_)
Identifiers(refs) ==
    IF refs = <<>> THEN <<>> ELSE <<identifier(Head(refs))>> \o Identifiers(Tail(refs))

\* A mutation of Discovered: the attribute's own Networks are not passed on.
DiscoveredNestedOnly(frame) == frame.all_deep_extracted

\* all_extracted + all_deep_extracted
Discovered(frame) == frame.all_extracted \o frame.all_deep_extracted

\* attributes[attribute.name] = [identifiers];
\* deep_networks.extend(all_extracted + all_deep_extracted)
GraphAttributeDone ==
    /\ stack # <<>> /\ AtAttribute(Top)
    /\ IsGraphAttribute(CurAttribute(Top))
    /\ IF Descend(deep_extract)
       THEN Top.gi > Len(AttributeGraphs(CurAttribute(Top)))
       ELSE TRUE
    /\ Step([Top EXCEPT
               !.attributes = Put(Top.attributes, CurAttribute(Top).name,
                                  Identifiers(Top.all_extracted)),
               !.deep_networks = Top.deep_networks \o Discovered(Top),
               !.all_extracted = <<>>, !.all_deep_extracted = <<>>,
               !.ai = Top.ai + 1, !.gi = 1])

---------------------------------------------------------------------------
(* Built-in nodes: slots *)

\* extract_from_fp: operands, then results (variadic_index runs on), Node(..)
FpBuiltin(frame) ==
    LET node     == CurNode(frame)
        operator == get_schema(node.op_type)
        nid      == str(frame.nid)
        ops      == FpOperands(node, operator, nid, 1, LoopState(frame.i2x, 0))
        res      == FpResults(node, operator, nid, 1,
                              LoopState(frame.o2x, ops.variadic_index))
    IN  IF ops.err # "none" THEN [err |-> ops.err, frame |-> frame]
        ELSE IF res.err # "none" THEN [err |-> res.err, frame |-> frame]
        ELSE [err |-> "none",
              frame |-> AddNode(frame,
                           Node(node.op_type, node.domain, frame.attributes,
                                <<>>, ops.d, res.d),
                           ops.x, res.x)]

\* extract_from_gp: parameters, operands, results (each from variadic_index 0)
GpBuiltin(frame) ==
    LET node     == CurNode(frame)
        operator == get_schema(node.op_type)
        nid      == str(frame.nid)
        pms      == GpParameters(node, operator, frame.pm_info, 1, LoopState(<<>>, 0))
        ops      == GpOperands(node, operator, frame.io_info, nid, 1,
                               LoopState(frame.i2x, 0))
        res      == GpResults(node, operator, frame.io_info, nid, 1,
                              LoopState(frame.o2x, 0))
    IN  IF pms.err # "none" THEN [err |-> pms.err, frame |-> frame]
        ELSE IF ops.err # "none" THEN [err |-> ops.err, frame |-> frame]
        ELSE IF res.err # "none" THEN [err |-> res.err, frame |-> frame]
        ELSE [err |-> "none",
              frame |-> AddNode(frame,
                           Node(node.op_type, node.domain, frame.attributes,
                                pms.d, ops.d, res.d),
                           ops.x, res.x)]

\* The attribute loop of a built-in node is over: name its slots, add the node.
BuiltinNode ==
    /\ stack # <<>> /\ InLoop(Top) /\ IsBuiltin(CurNode(Top))
    /\ Top.ai > Len(CurNode(Top).attribute)
    /\ LET r == IF Top.kind = "fp" THEN FpBuiltin(Top) ELSE GpBuiltin(Top) IN
       IF r.err # "none" THEN Raise(r.err) ELSE Step(r.frame)

---------------------------------------------------------------------------
(* Function-call nodes *)

\* fp_networks.get((node.op_type, node.domain), None)
Lookup(registry, node) ==
    IF <<node.op_type, node.domain>> \in DOMAIN registry
    THEN registry[<<node.op_type, node.domain>>]
    ELSE [tag |-> "None"]

\* dict() when the function is unknown, dict(function=fp_network.identifier) else
CallAttributes(fp_network) ==
    IF fp_network.tag = "None" THEN <<>>
    ELSE [function |-> identifier(fp_network.ref)]

\* The operands and results of a function-call node, Node(..), add it.
CallNode(frame, fp_network) ==
    LET node == CurNode(frame)
        nid  == str(frame.nid)
        gp   == frame.kind = "gp"
        ops  == CallSlots(node.input, gp, frame.io_info, nid, 1, LoopState(frame.i2x, 0))
        res  == CallSlots(node.output, gp, frame.io_info, nid, 1, LoopState(frame.o2x, 0))
    IN  AddNode(frame,
                Node(node.op_type, node.domain, CallAttributes(fp_network),
                     <<>>, ops.d, res.d),
                ops.x, res.x)

\* extract_from_gp: the called function must already be a Network.
GpFunctionNode ==
    /\ stack # <<>> /\ InLoop(Top) /\ Top.kind = "gp"
    /\ ~ IsBuiltin(CurNode(Top))
    /\ LET fp_network == Lookup(fp_networks, CurNode(Top)) IN
       IF fp_network.tag = "FunctionProto"
       THEN Raise("AssertionError")
       ELSE Step(CallNode(Top, fp_network))

\* extract_from_fp: the called function is unknown or already a Network.
FpFunctionNode ==
    /\ stack # <<>> /\ InLoop(Top) /\ Top.kind = "fp"
    /\ ~ IsBuiltin(CurNode(Top))
    /\ LET fp_network == Lookup(fp_networks, CurNode(Top)) IN
       /\ fp_network.tag # "FunctionProto"
       /\ Step(CallNode(Top, fp_network))

\* extract_from_fp: the called function is still raw, extract it now.
FpFunctionCall ==
    /\ stack # <<>> /\ InLoop(Top) /\ Top.kind = "fp"
    /\ ~ IsBuiltin(CurNode(Top))
    /\ LET fp_network == Lookup(fp_networks, CurNode(Top)) IN
       /\ fp_network.tag = "FunctionProto"
       /\ Call(NewFrame("fp", fp_network.fp, TRUE))

\* The nested extract_from_fp returns to the calling function-call node; the
\* next statement writes the registry under (function.name, function.domain),
\* and extract_from_fp binds no name `function`: NameError.
ReturnToCall ==
    /\ Len(stack) >= 2 /\ Finished(Top)
    /\ ~ IsBuiltin(CurNode(Caller))
    /\ IF ~ IsDAG(Top) THEN Raise("AssertionError")
       ELSE RaiseAfterNew("NameError", Top)

---------------------------------------------------------------------------
(* Raw models *)

MaxNodes == 3

MaxInputs == 4

MaxOutputs == 2

MaxFunctions == 2

ValueInfo(name) == [name |-> name, type |-> "T"]

Tensor(name) == [name |-> name, dataType |-> 1]

RECURSIVE Map(_, _)
Map(names, k) ==
    IF k > Len(names) THEN <<>> ELSE <<ValueInfo(names[k])>> \o Map(names, k + 1)

GraphProto(node, initializer, input, value_info, output) ==
    [node |-> node, initializer |-> initializer, input |-> Map(input, 1),
     value_info |-> Map(value_info, 1), output |-> Map(output, 1)]

NodeProto(op_type, domain, input, output, attribute) ==
    [op_type |-> op_type, domain |-> domain, input |-> input, output |-> output,
     attribute |-> attribute]

FunctionProto(name, domain, node) == [name |-> name, domain |-> domain, node |-> node]

ModelProto(functions, graph) == [functions |-> functions, graph |-> graph]

RECURSIVE SeqsUpTo(_, _)
SeqsUpTo(S, n) ==
    IF n = 0 THEN {<<>>}
    ELSE LET shorter == SeqsUpTo(S, n - 1)
         IN  shorter \cup {Append(q, e) : q \in {r \in shorter : Len(r) = n - 1}, e \in S}

\* Topology: a main graph of up to MaxNodes one-input one-output nodes over the
\* value names w (graph input), x, y, z; y is an annotated value, an unannotated
\* one or the graph output.
TopoNodes ==
    {NodeProto("Add", "", <<i>>, <<o>>, <<>>) : i \in {"w", "x", "y"}, o \in {"x", "y", "z"}}

TopoGraphs ==
    {GraphProto(nodes, <<>>, <<"w">>, io[1], io[2]) :
        nodes \in SeqsUpTo(TopoNodes, MaxNodes) \ {<<>>},
        io \in {<< <<"x", "y">>, <<"z">> >>, << <<"x">>, <<"z">> >>, << <<"x">>, <<"y">> >>}}

TopoModels == {ModelProto(<<>>, g) : g \in TopoGraphs}

\* Slots: one built-in node with up to MaxInputs inputs and MaxOutputs outputs;
\* each input is an initializer ("p"), an annotated runtime value ("v"), both
\* ("b") or neither ("n").
InputName(k) == "i" \o str(k)

OutputName(k) == "o" \o str(k)

RECURSIVE Pick(_, _, _)
Pick(classes, wanted, k) ==
    IF k > Len(classes) THEN <<>>
    ELSE (IF classes[k] \in wanted THEN <<InputName(k)>> ELSE <<>>)
         \o Pick(classes, wanted, k + 1)

RECURSIVE Tensors(_, _)
Tensors(names, k) ==
    IF k > Len(names) THEN <<>> ELSE <<Tensor(names[k])>> \o Tensors(names, k + 1)

SlotNode(op, n, m) ==
    NodeProto(op, "", [k \in 1..n |-> InputName(k)], [k \in 1..m |-> OutputName(k)],
              <<[name |-> "axis", type |-> "INT", i |-> 1]>>)

SlotGraphs ==
    {GraphProto(<<SlotNode(op, Len(classes), m)>>,
                Tensors(Pick(classes, {"p", "b"}, 1), 1),
                Pick(classes, {"b"}, 1),
                Pick(classes, {"v"}, 1) \o [k \in 1..m |-> OutputName(k)],
                <<>>) :
        op \in {"Add", "Cat"},
        classes \in SeqsUpTo({"p", "v", "b", "n"}, MaxInputs),
        m \in 1..MaxOutputs}

EmptyGraph == GraphProto(<<>>, <<>>, <<>>, <<>>, <<>>)

SlotFunctions ==
    {FunctionProto("f", "local", <<SlotNode(op, n, m)>>) :
        op \in {"Add", "Cat"}, n \in 0..MaxInputs, m \in 1..MaxOutputs}

SlotModels ==
    {ModelProto(<<>>, g) : g \in SlotGraphs}
    \cup {ModelProto(<<f>>, EmptyGraph) : f \in SlotFunctions}

\* Structure: up to MaxFunctions functions named f or g, function-call nodes
\* (h is defined nowhere) and nodes carrying graph attributes, nested up to
\* three levels.
CallProto(name) == NodeProto(name, "local", <<"x">>, <<"y">>, <<>>)

SubGraph(nodes) == GraphProto(nodes, <<>>, <<>>, <<"x", "y">>, <<>>)

IfProto(then_branch, else_branch) ==
    NodeProto("If", "", <<"x">>, <<"y">>,
              <<[name |-> "then_branch", type |-> GRAPH, g |-> then_branch, graphs |-> <<>>],
                [name |-> "else_branch", type |-> GRAPH, g |-> else_branch, graphs |-> <<>>]>>)

ScanProto(graphs) ==
    NodeProto("Scan", "", <<"x">>, <<"y">>,
              <<[name |-> "bodies", type |-> GRAPHS, g |-> EmptyGraph, graphs |-> graphs]>>)

CallG == SubGraph(<<CallProto("g")>>)

\* A function-call node that carries a graph-valued attribute
CallWithGraph(name, g) ==
    NodeProto(name, "local", <<"x">>, <<"y">>,
              <<[name |-> "branch", type |-> GRAPH, g |-> g, graphs |-> <<>>]>>)

Relu == SubGraph(<<NodeProto("Add", "", <<"x">>, <<"y">>, <<>>)>>)

\* Two nodes feeding each other
Cyclic ==
    <<NodeProto("Add", "", <<"x">>, <<"y">>, <<>>), NodeProto("Add", "", <<"y">>, <<"x">>, <<>>)>>

FunctionBodies ==
    {<<CallProto(n)>> : n \in {"f", "g", "h"}}
    \cup {<<NodeProto("Add", "", <<"x">>, <<"y">>, <<>>)>>,
          <<IfProto(CallG, Relu)>>,
          <<CallWithGraph("h", Relu)>>,
          Cyclic}

MainGraphs ==
    {SubGraph(<<CallProto(a), CallProto(b)>>) : a \in {"f", "g"}, b \in {"g", "h"}}
    \cup {SubGraph(<<IfProto(CallG, Relu)>>),
          SubGraph(<<IfProto(Relu, Relu)>>),
          SubGraph(<<ScanProto(<<Relu, SubGraph(<<IfProto(CallG, EmptyGraph)>>)>>)>>),
          SubGraph(<<CallProto("f"), IfProto(Relu, CallG)>>),
          SubGraph(<<CallWithGraph("g", Relu)>>),
          SubGraph(Cyclic),
          SubGraph(<<IfProto(Relu, SubGraph(Cyclic))>>)}

StructFunctions ==
    {FunctionProto(n, "local", b) : n \in {"f", "g"}, b \in FunctionBodies}

StructModels ==
    {ModelProto(fs, g) : fs \in SeqsUpTo(StructFunctions, MaxFunctions), g \in MainGraphs}

\* Labels: a producer of v and a consumer that takes v as its first, second or
\* third input, in a main graph and in a function body.
LabelNodes ==
    {<<NodeProto("Add", "", <<"w">>, <<"v">>, <<>>), NodeProto(op, "", ins, <<"z">>, <<>>)>> :
        op \in {"Add", "Cat"}, ins \in {<<"v">>, <<"w", "v">>, <<"w", "w", "v">>}}

LabelModels ==
    {ModelProto(<<>>, GraphProto(nodes, <<>>, <<"w">>, <<"v", "z">>, <<>>)) :
        nodes \in LabelNodes}
    \cup {ModelProto(<<FunctionProto("f", "local", nodes)>>, EmptyGraph) :
              nodes \in LabelNodes}

Models == TopoModels \cup SlotModels \cup StructModels \cup LabelModels

---------------------------------------------------------------------------
(* The uploader at rest *)

MaxWorkers == 2

MaxInstances == 3

\* worker_number processes of multiprocessing.Pool
Workers == 1..MaxWorkers

NoUpload ==
    /\ phase = "idle"
    /\ meta = FALSE
    /\ dataset = <<>>
    /\ cache = {}
    /\ queue = 1
    /\ task = [w \in Workers |-> 0]
    /\ wpc = [w \in Workers |-> "free"]
    /\ failure = "none"

---------------------------------------------------------------------------
(* The machine *)

Init ==
    /\ model \in Models
    /\ entry = "none"
    /\ deep_extract = FALSE
    /\ pc = "idle"
    /\ fp_networks = <<>>
    /\ fidx = 1
    /\ deep_networks = <<>>
    /\ stack = <<>>
    /\ networks = <<>>
    /\ origin = <<>>
    /\ result = <<>>
    /\ error = "none"
    /\ runs = <<>>
    /\ NoUpload

Next ==
    \/ extract_network
    \/ extract_networks
    \/ EagerExtract
    \/ ReturnToEager
    \/ EagerAppend
    \/ ExtractMain
    \/ ReturnToMain
    \/ PlainAttribute
    \/ GraphAttributeCall
    \/ ReturnToAttribute
    \/ GraphAttributeDone
    \/ BuiltinNode
    \/ GpFunctionNode
    \/ FpFunctionNode
    \/ FpFunctionCall
    \/ ReturnToCall

Spec == Init /\ [][Next]_vars

---------------------------------------------------------------------------
(* Calling the entry point a second time on the same raw model *)

\* The feature record of a vertex without the Network identifiers it holds
Features(ref, nid) ==
    LET raw  == origin[ref].proto.node[CHOOSE k \in 1..Len(origin[ref].proto.node) :
                                          str(k - 1) = nid]
        node == networks[ref].nn_nodes[nid]
        ids  == IF IsBuiltin(raw)
                THEN {a.name : a \in {b \in SeqToSet(raw.attribute) : IsGraphAttribute(b)}}
                ELSE {"function"}
    IN  [node EXCEPT !.attributes = [n \in (DOMAIN node.attributes) \ ids |->
                                        node.attributes[n]]]

\* What a Network holds, identifiers aside
Content(ref) ==
    [nn_size  |-> networks[ref].nn_size,
     nn_edges |-> networks[ref].nn_edges,
     nn_nodes |-> [nid \in DOMAIN networks[ref].nn_nodes |-> Features(ref, nid)]]

\* What the finished call came to: how it ended and what it returned
Outcome ==
    [pc      |-> pc,
     error   |-> error,
     network |-> IF pc = "done" THEN Content(result.network) ELSE <<>>,
     deep_networks |->
         IF pc = "done" /\ entry = "extract_networks"
         THEN [i \in DOMAIN result.deep_networks |-> Content(result.deep_networks[i])]
         ELSE <<>>]

\* The caller runs the same entry point again on the same raw model: new
\* locals and a new registry; the Networks of the first call stay on the heap.
Rerun ==
    /\ pc \in {"done", "failed"}
    /\ runs = <<>>
    /\ runs' = <<[outcome |-> Outcome,
                  network |-> IF pc = "done" THEN result.network ELSE 0]>>
    /\ result' = <<>>
    /\ error' = "none"
    /\ fidx' = 1
    /\ deep_networks' = <<>>
    /\ IF entry = "extract_network"
       THEN /\ fp_networks' = <<>>
            /\ stack' = <<NewFrame("gp", model.graph, FALSE)>>
            /\ pc' = "main"
       ELSE /\ fp_networks' = FreshRegistry(model.functions)
            /\ stack' = <<>>
            /\ pc' = "eager"
    /\ UNCHANGED <<model, upload, entry, deep_extract, networks, origin>>

NextTwice ==
    \/ Next
    \/ Rerun

MaxNodesTwice == 2

\* The raw models that are extracted twice: the shorter topologies, the slot
\* models, and the structures whose functions call g, add, or branch.
TwiceFunctions ==
    {f \in StructFunctions :
        f.node \in {<<CallProto("g")>>,
                    <<NodeProto("Add", "", <<"x">>, <<"y">>, <<>>)>>,
                    <<IfProto(CallG, Relu)>>}}

TwiceModels ==
    {m \in TopoModels : Len(m.graph.node) <= MaxNodesTwice} \cup SlotModels
    \cup {ModelProto(fs, g) : fs \in SeqsUpTo(TwiceFunctions, MaxFunctions),
                              g \in MainGraphs}

InitTwice == Init /\ model \in TwiceModels

Twice == InitTwice /\ [][NextTwice]_vars

---------------------------------------------------------------------------
(* Vocabulary of the properties *)

Refs == 1..Len(networks)

\* The raw node a Node record of Network ref was normalized from
RawNode(ref, nid) ==
    CHOOSE n \in {origin[ref].proto.node[k] : k \in 1..Len(origin[ref].proto.node)} :
        \E k \in 1..Len(origin[ref].proto.node) :
            str(k - 1) = nid /\ n = origin[ref].proto.node[k]

\* The Networks built from the body of a function registered under key
BodiesOf(key) == {r \in Refs : origin[r].kind = "fp" /\ Key(origin[r].proto) = key}

\* The call sites of key: <<Network, vertex>> pairs
CallSites(key) ==
    {<<r, nid>> \in UNION {{<<q, v>> : v \in DOMAIN networks[q].nn_nodes} : q \in Refs} :
        <<networks[r].nn_nodes[nid].operator_type,
          networks[r].nn_nodes[nid].operator_domain>> = key}

Returned ==
    IF pc # "done" THEN {}
    ELSE IF entry = "extract_network" THEN {result.network}
    ELSE {result.network} \cup SeqToSet(result.deep_networks)

---------------------------------------------------------------------------
(* C1: in one extract_networks call the body registered under a (name,      *)
(* domain) key is extracted once (never twice, exactly once by the time the *)
(* call returns), and the `function` attribute of every node calling that   *)
(* key, in the main graph or in another function body, holds the identifier *)
(* of that one Network.                                                     *)
C1_ExtractedOnce ==
    entry = "extract_networks" =>
        \A key \in DOMAIN fp_networks :
            /\ Cardinality(BodiesOf(key)) <= 1
            /\ pc = "done" => Cardinality(BodiesOf(key)) = 1
            /\ \A site \in CallSites(key) :
                  LET n == networks[site[1]].nn_nodes[site[2]] IN
                  /\ "function" \in DOMAIN n.attributes
                  /\ \E b \in BodiesOf(key) : n.attributes.function = identifier(b)

\* A returned call in which one function is called from three sites, in the
\* main graph and in another function's body.
C1_Witness ==
    /\ pc = "done" /\ entry = "extract_networks"
    /\ \E key \in DOMAIN fp_networks :
          /\ Cardinality(CallSites(key)) >= 3
          /\ \E s \in CallSites(key) : networks[s[1]].is_fnc /\ s[1] \in Returned
          /\ \E s \in CallSites(key) : s[1] = result.network

---------------------------------------------------------------------------
(* C2: the list of discovered Networks that extract_networks returns holds  *)
(* no function-body Network twice.                                          *)
C2_NoDuplicateBody ==
    (pc = "done" /\ entry = "extract_networks") =>
        \A i, j \in DOMAIN result.deep_networks :
            (i # j /\ networks[result.deep_networks[i]].is_fnc)
                => result.deep_networks[i] # result.deep_networks[j]

---------------------------------------------------------------------------
(* Graph vocabulary, independent of the code's own acyclicity test *)

Successors(E, S) == {e[2] : e \in {d \in E : d[1] \in S}}

RECURSIVE ReachableFrom(_, _)
ReachableFrom(E, S) ==
    LET T == S \cup Successors(E, S) IN
    IF T = S THEN S ELSE ReachableFrom(E, T)

OnCycle(E, v) == v \in ReachableFrom(E, Successors(E, {v}))

\* A topological ordering of V exists iff no vertex lies on a cycle.
HasTopologicalOrder(V, E) == \A v \in V : ~ OnCycle(E, v)

\* The value names a level records: every name in a function body, the names
\* with a type descriptor in a graph.
Recorded(level) ==
    IF level.kind = "fp"
    THEN UNION {SeqToSet(level.proto.node[k].input) \cup SeqToSet(level.proto.node[k].output) :
                   k \in 1..Len(level.proto.node)}
    ELSE {v.name : v \in SeqToSet(level.proto.input \o level.proto.value_info
                                  \o level.proto.output)}

\* Vertices (as the code names them) producing / consuming value name v
Producers(level, v) ==
    {str(k - 1) : k \in {j \in 1..Len(level.proto.node) :
                            v \in SeqToSet(level.proto.node[j].output)}}

Consumers(level, v) ==
    {str(k - 1) : k \in {j \in 1..Len(level.proto.node) :
                            v \in SeqToSet(level.proto.node[j].input)}}

\* 'node c consumes a recorded value name that node p produces'
Feeds(level) ==
    UNION {Producers(level, v) \X Consumers(level, v) : v \in Recorded(level)}

\* A level in single-assignment form in which no node reads its own output
Plain(level) ==
    \A v \in Recorded(level) :
        /\ Cardinality(Producers(level, v)) <= 1
        /\ Producers(level, v) \cap Consumers(level, v) = {}

HasFeedback(level) == \E p \in {e[1] : e \in Feeds(level)} : OnCycle(Feeds(level), p)

---------------------------------------------------------------------------
(* C3: the edge relation of every constructed Network (main graph, function *)
(* body or nested sub-graph) is acyclic: a topological ordering of its      *)
(* vertices exists.                                                         *)
C3_Acyclic ==
    \A r \in Refs :
        HasTopologicalOrder(DOMAIN networks[r].nn_nodes, DOMAIN networks[r].nn_edges)

\* A returned Network with a chain of two edges.
C3_Witness ==
    \E r \in Returned : Cardinality(DOMAIN networks[r].nn_edges) >= 2

---------------------------------------------------------------------------
(* C4: a level whose nodes contain a feedback dependency among its recorded *)
(* values yields no Network (its extraction fails); stated for levels in    *)
(* single-assignment form in which no node reads its own output.            *)
C4_FeedbackFails ==
    \A r \in Refs : Plain(origin[r]) => ~ HasFeedback(origin[r])

---------------------------------------------------------------------------
(* C5: a Network has an edge from the vertex producing a recorded value to  *)
(* each of the k vertices consuming it, and no other edge; stated for       *)
(* levels in single-assignment form in which no node reads its own output.  *)
C5_FanOut ==
    \A r \in Refs :
        Plain(origin[r]) => DOMAIN networks[r].nn_edges = Feeds(origin[r])

---------------------------------------------------------------------------
(* Slot vocabulary *)

LastVariadic(slots) == slots # <<>> /\ slots[Len(slots)].variadic

\* The name the variadic rule gives position i (0-based) of a slot list whose
\* last slot is variadic: slot i up to the last slot, then `last_k`.
VariadicName(slots, i) ==
    IF i < Len(slots) THEN slots[i + 1].name
    ELSE slots[Len(slots)].name \o "_" \o str(i - (Len(slots) - 1))

Initializers(level) ==
    IF level.kind = "fp" THEN {}
    ELSE {t.name : t \in SeqToSet(level.proto.initializer)}

\* The vertices of the constructed Networks: <<Network, vertex>> pairs
Sites == UNION {{<<r, v>> : v \in DOMAIN networks[r].nn_nodes} : r \in Refs}

BuiltinSites == {s \in Sites : IsBuiltin(RawNode(s[1], s[2]))}

---------------------------------------------------------------------------
(* C6: for a built-in node whose last input slot is variadic, the input at  *)
(* position i is named by slot i up to the last slot L and `last_k`         *)
(* (k = i - L) beyond it, under `parameters` for an initializer and under   *)
(* `operands` for a recorded runtime value, in both level kinds.            *)
C6_VariadicNames ==
    \A s \in BuiltinSites :
        LET raw   == RawNode(s[1], s[2])
            node  == networks[s[1]].nn_nodes[s[2]]
            slots == get_schema(raw.op_type).inputs
        IN  LastVariadic(slots) =>
              \A i \in 0..(Len(raw.input) - 1) :
                 LET v == raw.input[i + 1] IN
                 /\ v \in Initializers(origin[s[1]])
                       => VariadicName(slots, i) \in DOMAIN node.parameters
                 /\ v \in Recorded(origin[s[1]])
                       => VariadicName(slots, i) \in DOMAIN node.operands

---------------------------------------------------------------------------
(* C7: a built-in node with more positional inputs or outputs than declared *)
(* slots never makes extraction fail, and each extra position is mapped to  *)
(* the last declared slot when that slot is not variadic.                   *)
C7_ClampedNotFailed ==
    /\ error # "IndexError"
    /\ \A s \in BuiltinSites :
          LET raw  == RawNode(s[1], s[2])
              node == networks[s[1]].nn_nodes[s[2]]
              ins  == get_schema(raw.op_type).inputs
              outs == get_schema(raw.op_type).outputs
          IN  /\ ~ LastVariadic(ins) =>
                    \A i \in Len(ins)..(Len(raw.input) - 1) :
                       /\ raw.input[i + 1] \in Initializers(origin[s[1]])
                             => ins[Len(ins)].name \in DOMAIN node.parameters
                       /\ raw.input[i + 1] \in Recorded(origin[s[1]])
                             => ins[Len(ins)].name \in DOMAIN node.operands
              /\ ~ LastVariadic(outs) =>
                    \A i \in Len(outs)..(Len(raw.output) - 1) :
                       raw.output[i + 1] \in Recorded(origin[s[1]])
                             => outs[Len(outs)].name \in DOMAIN node.results

---------------------------------------------------------------------------
(* Attribute vocabulary *)

\* The graph slots of a set of vertices: <<Network, vertex, attribute
\* position, graph position>> for every graph an attribute of the vertex's raw
\* node carries.
GraphSlots(sites) ==
    UNION {UNION {{<<s[1], s[2], a, j>> :
                      j \in 1..Len(AttributeGraphs(RawNode(s[1], s[2]).attribute[a]))} :
                  a \in 1..Len(RawNode(s[1], s[2]).attribute)} :
           s \in sites}

GraphAttributes(raw) == {a \in SeqToSet(raw.attribute) : IsGraphAttribute(a)}

SlotAttribute(slot) == RawNode(slot[1], slot[2]).attribute[slot[3]]

SlotGraph(slot) == AttributeGraphs(SlotAttribute(slot))[slot[4]]

\* Whether the Node record of a slot's vertex has the slot's attribute
HasAttribute(slot) ==
    SlotAttribute(slot).name \in DOMAIN networks[slot[1]].nn_nodes[slot[2]].attributes

\* The materialized value of the attribute a graph slot belongs to
Materialized(slot) ==
    networks[slot[1]].nn_nodes[slot[2]].attributes[SlotAttribute(slot).name]

Occurrences(seq, x) == Cardinality({i \in DOMAIN seq : seq[i] = x})

\* extract_network: one level, one Network, nothing nested, no function body
OnlyMainGraph ==
    /\ Len(stack) <= 1
    /\ Len(networks) <= 1
    /\ pc = "done" => (Len(networks) = 1 /\ result.network = 1)
    /\ \A r \in Refs : ~ networks[r].is_fnc /\ origin[r].proto = model.graph

\* Every graph-carrying attribute of the vertices in sites is recorded as the
\* empty list.
EmptyLists(sites) ==
    \A s \in sites :
        \A a \in GraphAttributes(RawNode(s[1], s[2])) :
            /\ a.name \in DOMAIN networks[s[1]].nn_nodes[s[2]].attributes
            /\ networks[s[1]].nn_nodes[s[2]].attributes[a.name] = <<>>

\* Every graph carried by an attribute of the vertices in sites has one
\* Network of its own, marked is_sub and not is_fnc, listed in the attribute's
\* value in the attribute's order, and returned once in the list, which holds
\* no other sub-graph Network.
OnePerGraph(sites) ==
    /\ \A slot \in GraphSlots(sites) :
          /\ HasAttribute(slot)
          /\ Len(Materialized(slot)) = Len(AttributeGraphs(SlotAttribute(slot)))
          /\ \E r \in Refs :
                /\ Materialized(slot)[slot[4]] = identifier(r)
                /\ origin[r] = [kind |-> "gp", proto |-> SlotGraph(slot)]
                /\ networks[r].is_sub /\ ~ networks[r].is_fnc
    /\ \A s1, s2 \in GraphSlots(sites) :
          s1 # s2 => Materialized(s1)[s1[4]] # Materialized(s2)[s2[4]]
    /\ pc = "done" =>
          /\ \A slot \in GraphSlots(sites) :
                slot[1] \in Returned =>
                    Occurrences(result.deep_networks, Materialized(slot)[slot[4]]) = 1
          /\ \A r \in SeqToSet(result.deep_networks) :
                (networks[r].is_sub /\ ~ networks[r].is_fnc) =>
                    \E slot \in GraphSlots(sites) :
                        slot[1] \in Returned /\ Materialized(slot)[slot[4]] = identifier(r)

---------------------------------------------------------------------------
(* C8, as claimed: extract_network assembles the main graph only (one       *)
(* Network, nothing nested, no function body) and records every graph-      *)
(* valued or graph-list-valued attribute of every node as the empty list.   *)
C8_EveryNodeEmptyList ==
    entry = "extract_network" => (OnlyMainGraph /\ EmptyLists(Sites))

(* C8, amended: extract_network assembles the main graph only (one Network, *)
(* nothing nested, no function body) and records every graph-valued or      *)
(* graph-list-valued attribute of every built-in node as the empty list;    *)
(* a function-call node records none of its attributes.                     *)
C8_Shallow ==
    entry = "extract_network" =>
        /\ OnlyMainGraph
        /\ EmptyLists(BuiltinSites)
        /\ \A s \in Sites \ BuiltinSites : networks[s[1]].nn_nodes[s[2]].attributes = <<>>

\* extract_network has returned the Network of a main graph holding a built-in
\* node with two graph-valued attributes.
C8_Witness ==
    /\ pc = "done" /\ entry = "extract_network"
    /\ \E s \in BuiltinSites : Cardinality(GraphAttributes(RawNode(s[1], s[2]))) = 2

---------------------------------------------------------------------------
(* C9, as claimed: under extract_networks with deep_extract, every graph    *)
(* carried by a graph-valued or graph-list-valued attribute of any node has *)
(* one Network of its own, marked is_sub and not is_fnc; the attribute's    *)
(* value lists those Networks' identifiers in the attribute's order.        *)
C9_EveryNodeSubgraphs ==
    (entry = "extract_networks" /\ deep_extract) => OnePerGraph(Sites)

(* C9, amended: under extract_networks with deep_extract, every graph       *)
(* carried by a graph-valued or graph-list-valued attribute of a built-in   *)
(* node of an assembled level has one Network of its own, built from that   *)
(* graph and marked is_sub and not is_fnc; the attribute's value lists      *)
(* those Networks' identifiers in the attribute's order; the returned list  *)
(* holds each of them once and no other sub-graph Network.                  *)
C9_DeepSubgraphs ==
    (entry = "extract_networks" /\ deep_extract) => OnePerGraph(BuiltinSites)

\* A deep extract_networks call has returned for a main graph whose built-in
\* node has two graph-valued attributes: two more Networks are in the list.
C9_Witness ==
    /\ pc = "done" /\ entry = "extract_networks" /\ deep_extract
    /\ \E s \in BuiltinSites :
          /\ s[1] = result.network
          /\ Cardinality(GraphAttributes(RawNode(s[1], s[2]))) = 2
    /\ Cardinality({r \in SeqToSet(result.deep_networks) : networks[r].is_sub
                                                           /\ ~ networks[r].is_fnc}) = 2

---------------------------------------------------------------------------
---------------------------------------------------------------------------
(* Graph-level external names *)

\* The graph-level external inputs and outputs of a graph level
External(level) ==
    IF level.kind = "fp" THEN {}
    ELSE {v.name : v \in SeqToSet(level.proto.input \o level.proto.output)}

\* Whether some recorded value name other than the external ones links
\* producer p to consumer c
LinkedInternally(level, p, c) ==
    \E v \in Recorded(level) \ External(level) :
        p \in Producers(level, v) /\ c \in Consumers(level, v)

---------------------------------------------------------------------------
(* C11: a Network has no edge for a value name that is a graph-level input  *)
(* or output of its graph, also when a node produces a graph output that    *)
(* another node of the level consumes: two vertices linked by external      *)
(* names only are not joined by an edge.                                    *)
C11_NoExternalEdge ==
    \A r \in Refs :
        \A v \in External(origin[r]) :
            \A p \in Producers(origin[r], v), c \in Consumers(origin[r], v) :
                (p # c /\ ~ LinkedInternally(origin[r], p, c))
                    => <<p, c>> \notin DOMAIN networks[r].nn_edges

---------------------------------------------------------------------------
(* Identifiers held by node attributes *)

\* The Network identifiers stored in the attributes of vertex nid of Network
\* ref: the `function` attribute of a function-call node, the identifier lists
\* of the graph attributes of a built-in node.
IdentifiersOf(ref, nid) ==
    LET raw  == RawNode(ref, nid)
        node == networks[ref].nn_nodes[nid]
    IN  IF IsBuiltin(raw)
        THEN UNION {SeqToSet(node.attributes[a.name]) : a \in GraphAttributes(raw)}
        ELSE IF "function" \in DOMAIN node.attributes
             THEN {node.attributes.function}
             ELSE {}

---------------------------------------------------------------------------
(* C12: when extract_networks has returned, every Network identifier held   *)
(* by a node attribute of the main Network or of a Network in the returned  *)
(* list is the identifier of a Network in the returned list.                *)
C12_ReferencedReturned ==
    (pc = "done" /\ entry = "extract_networks") =>
        \A r \in Returned :
            \A nid \in DOMAIN networks[r].nn_nodes :
                IdentifiersOf(r, nid) \subseteq
                    {identifier(q) : q \in SeqToSet(result.deep_networks)}

\* A returned deep call whose main Network calls a function and carries graph
\* attributes, one of whose sub-graph Networks calls a function itself.
C12_Witness ==
    /\ pc = "done" /\ entry = "extract_networks" /\ deep_extract
    /\ \E nid \in DOMAIN networks[result.network].nn_nodes :
          "function" \in DOMAIN networks[result.network].nn_nodes[nid].attributes
    /\ \E nid \in DOMAIN networks[result.network].nn_nodes :
          /\ IsBuiltin(RawNode(result.network, nid))
          /\ Cardinality(IdentifiersOf(result.network, nid)) = 2
    /\ \E r \in SeqToSet(result.deep_networks) :
          /\ networks[r].is_sub /\ ~ networks[r].is_fnc
          /\ \E nid \in DOMAIN networks[r].nn_nodes : IdentifiersOf(r, nid) # {}

---------------------------------------------------------------------------
(* C13: extraction is all-or-nothing per top-level call: a failure at any   *)
(* level ends every enclosing level and the entry point returns nothing,    *)
(* neither a Network nor a partial list; a call that returns has assembled  *)
(* the main graph and raised nothing.                                       *)
C13_AllOrNothing ==
    /\ error # "none" => (pc = "failed" /\ stack = <<>> /\ result = <<>>)
    /\ pc = "failed" => error # "none"
    /\ pc = "done" =>
          /\ error = "none"
          /\ result.network \in Refs
          /\ origin[result.network] = [kind |-> "gp", proto |-> model.graph]

\* A deep extract_networks call has failed the acyclicity check in a sub-graph
\* nested under the main graph, after a function body and another sub-graph
\* had been extracted: nothing is returned.
C13_Witness ==
    /\ pc = "failed" /\ error = "AssertionError" /\ result = <<>>
    /\ entry = "extract_networks" /\ deep_extract
    /\ model.graph = SubGraph(<<IfProto(Relu, SubGraph(Cyclic))>>)
    /\ deep_networks # <<>>
    /\ \E r \in Refs : origin[r] = [kind |-> "gp", proto |-> Relu]

---------------------------------------------------------------------------
(* C14: a function whose extraction is under way is never entered again: a  *)
(* re-entry is refused with a recursive-definition error of its own, so no  *)
(* two running extract_from_fp calls work on the same function definition   *)
(* and the interpreter's recursion limit is never what ends the call.       *)
C14_ReentryRefused ==
    /\ error # "RecursionError"
    /\ \A i, j \in DOMAIN stack :
          (i < j /\ stack[i].kind = "fp" /\ stack[j].kind = "fp")
              => stack[i].proto # stack[j].proto

---------------------------------------------------------------------------
---------------------------------------------------------------------------
(* Lazy resolution *)

\* The functions whose extract_from_fp is running
InProgress == {Key(stack[i].proto) : i \in {j \in DOMAIN stack : stack[j].kind = "fp"}}

\* The running level is at a node calling a function whose registry entry is
\* still the raw definition and whose extraction is not under way.
CallsUnresolved ==
    /\ stack # <<>> /\ InLoop(Top)
    /\ ~ IsBuiltin(CurNode(Top))
    /\ Lookup(fp_networks, CurNode(Top)).tag = "FunctionProto"
    /\ <<CurNode(Top).op_type, CurNode(Top).domain>> \notin InProgress

\* The extraction started at such a node has assembled the callee's body.
CalleeAssembled ==
    /\ Len(stack) >= 2 /\ Finished(Top) /\ Top.kind = "fp"
    /\ ~ IsBuiltin(CurNode(Caller))
    /\ HasTopologicalOrder(DOMAIN Top.nn_nodes, DOMAIN Edges(Top))

---------------------------------------------------------------------------
(* C16: a node, met in a function body or in a sub-graph nested under one,  *)
(* that calls a registered but still unresolved function does not make the  *)
(* extraction fail: the callee is extracted at that point, its Network is   *)
(* written to the registry under the callee's own key and no other key is   *)
(* written, and the calling node's `function` attribute is that Network's   *)
(* identifier.                                                              *)
C16_LazyResolution ==
    [][ /\ CallsUnresolved => pc' # "failed"
        /\ CalleeAssembled =>
              /\ pc' # "failed"
              /\ Len(networks') = Len(networks) + 1
              /\ fp_networks' = [fp_networks EXCEPT
                                   ![Key(Top.proto)] = Resolved(Len(networks'))]
              /\ Len(stack') = Len(stack) - 1
              /\ stack'[Len(stack')].nn_nodes[str(Caller.nid)].attributes
                     = [function |-> identifier(Len(networks'))]
      ]_vars

---------------------------------------------------------------------------
(* C17: within one call, once seeded, the registry keeps its keys; an entry *)
(* changes only from the raw definition to a resolved Network, so each key  *)
(* is written at most once and a resolved entry is never replaced; a node   *)
(* that reads a resolved key gets that Network's identifier.                *)
C17_WriteOnce ==
    [][ pc # "idle" =>
          /\ DOMAIN fp_networks' = DOMAIN fp_networks
          /\ \A key \in DOMAIN fp_networks :
                fp_networks'[key] # fp_networks[key] =>
                    /\ fp_networks[key].tag = "FunctionProto"
                    /\ fp_networks'[key].tag = "Network"
          /\ ( /\ stack # <<>> /\ InLoop(Top) /\ ~ IsBuiltin(CurNode(Top))
               /\ Lookup(fp_networks, CurNode(Top)).tag = "Network"
               /\ pc' # "failed" )
             => stack'[Len(stack)].nn_nodes[str(Top.nid)].attributes.function
                    = identifier(Lookup(fp_networks, CurNode(Top)).ref)
      ]_vars

\* Two keys have been resolved one after the other and the main graph has
\* read a resolved key.
C17_Witness ==
    /\ pc = "main" /\ stack # <<>>
    /\ Cardinality(DOMAIN fp_networks) = 2
    /\ \A key \in DOMAIN fp_networks : fp_networks[key].tag = "Network"
    /\ \E nid \in DOMAIN Top.nn_nodes : "function" \in DOMAIN Top.nn_nodes[nid].attributes

---------------------------------------------------------------------------
(* C18: while extract_networks assembles the main graph and the sub-graphs  *)
(* nested under it, every function of the model has a registry entry and    *)
(* every entry is a resolved Network, so a function-call node met there     *)
(* never finds a raw definition and the check that the callee is a Network  *)
(* cannot fail.                                                             *)
C18_ResolvedAtMain ==
    (entry = "extract_networks" /\ pc = "main") =>
        /\ DOMAIN fp_networks = {Key(f) : f \in SeqToSet(model.functions)}
        /\ \A key \in DOMAIN fp_networks : fp_networks[key].tag = "Network"
        /\ (stack # <<>> /\ InLoop(Top) /\ ~ IsBuiltin(CurNode(Top)))
              => Lookup(fp_networks, CurNode(Top)).tag # "FunctionProto"

\* A sub-graph nested under the main graph is at a node calling a function of
\* a model that declares two.
C18_Witness ==
    /\ entry = "extract_networks" /\ pc = "main" /\ Len(stack) >= 2
    /\ Cardinality(DOMAIN fp_networks) = 2
    /\ InLoop(Top) /\ ~ IsBuiltin(CurNode(Top))
    /\ Lookup(fp_networks, CurNode(Top)).tag = "Network"

---------------------------------------------------------------------------
(* C19: when a level that has been assembled fails the acyclicity check,    *)
(* the call fails and the function registry is exactly what it was just     *)
(* before the check: resolved entries stay the same resolved Networks, none *)
(* is removed or made unresolved again.                                     *)
AcyclicityFails ==
    /\ stack # <<>> /\ Finished(Top)
    /\ ~ HasTopologicalOrder(DOMAIN Top.nn_nodes, DOMAIN Edges(Top))

C19_RegistryKept ==
    [][ AcyclicityFails =>
          /\ pc' = "failed" /\ error' = "AssertionError"
          /\ fp_networks' = fp_networks
      ]_vars

\* The body of the second function has failed the acyclicity check; the first
\* function is still resolved in the registry, the second still raw.
C19_Witness ==
    /\ pc = "failed" /\ error = "AssertionError" /\ entry = "extract_networks"
    /\ fidx = 2 /\ Len(model.functions) = 2
    /\ model.functions[2].node = Cyclic
    /\ fp_networks[Key(model.functions[1])].tag = "Network"
    /\ fp_networks[Key(model.functions[2])].tag = "FunctionProto"

---------------------------------------------------------------------------
(* C20: the result slot names of a built-in node are those the naming rule  *)
(* gives its outputs when the variadic suffix count starts from zero: they  *)
(* depend on the output schema and the positional outputs only, not on the  *)
(* node's inputs, in function bodies as in graphs.                          *)
AfreshResultNames(site) ==
    LET level    == origin[site[1]]
        raw      == RawNode(site[1], site[2])
        operator == get_schema(raw.op_type)
        afresh   == LoopState(<<>>, 0)
    IN  IF level.kind = "fp"
        THEN DOMAIN FpResults(raw, operator, site[2], 1, afresh).d
        ELSE DOMAIN GpResults(raw, operator,
                              IoInfo(level.proto.input \o level.proto.value_info
                                     \o level.proto.output, 1, <<>>),
                              site[2], 1, afresh).d

C20_ResultNamesAfresh ==
    \A s \in BuiltinSites :
        DOMAIN networks[s[1]].nn_nodes[s[2]].results = AfreshResultNames(s)

---------------------------------------------------------------------------
(* C21: the positional inputs of a built-in node of a graph are split       *)
(* between `parameters` (initializers) and `operands` (values that are not  *)
(* initializers and have a type descriptor), none in both: a node with no   *)
(* initializer input has no parameter, and a node none of whose inputs is a *)
(* described non-initializer has no operand, also when an initializer is    *)
(* declared as a graph input.                                               *)
C21_Partition ==
    \A s \in BuiltinSites :
        origin[s[1]].kind = "gp" =>
            LET raw  == RawNode(s[1], s[2])
                node == networks[s[1]].nn_nodes[s[2]]
                ins  == SeqToSet(raw.input)
            IN  /\ ins \cap Initializers(origin[s[1]]) = {}
                      => node.parameters = <<>>
                /\ (ins \cap Recorded(origin[s[1]])) \ Initializers(origin[s[1]]) = {}
                      => node.operands = <<>>

---------------------------------------------------------------------------
(* C22: every edge u -> v of every Network is labelled with the value it    *)
(* carries: u_opn is a key of u's results, v_opn a key of v's operands, and *)
(* some value sits at position u_opi of u's outputs and at position v_opi   *)
(* of v's inputs, also beyond the declared slots of a variadic operator.    *)
C22_EdgeLabels ==
    \A r \in Refs :
        \A e \in DOMAIN networks[r].nn_edges :
            LET label == networks[r].nn_edges[e]
                outs  == RawNode(r, e[1]).output
                ins   == RawNode(r, e[2]).input
            IN  /\ label.u_opn \in DOMAIN networks[r].nn_nodes[e[1]].results
                /\ label.v_opn \in DOMAIN networks[r].nn_nodes[e[2]].operands
                /\ label.u_opi + 1 \in DOMAIN outs
                /\ label.v_opi + 1 \in DOMAIN ins
                /\ outs[label.u_opi + 1] = ins[label.v_opi + 1]


---------------------------------------------------------------------------
(* The upload worker pool: handle_complete.py, main and upload_instance *)

\* The model sources get_instance_name_parts can find in a directory name
Sources == {"HuggingFace", "ONNX", "TorchVision", "Other"}

\* A file left in the cache directory by something else
Stale == <<0, "old">>

\* instance_filename: the hash of the directory name, one per instance
hash_string(i) == i

archive_filepath(i) == <<hash_string(i), "tgz">>

meta_filepath(i) == <<hash_string(i), "json">>

\* tar_archive(instance_dirpath, archive_filepath, compress=True) writes the
\* archive into the cache directory
tar_archive(files, i) == files \cup {archive_filepath(i)}

\* generate_instance_meta(..., save=meta): `if save: pass`, no file is written
generate_instance_meta(files, i, save) == files

\* delete_dir(cache_dirpath, only_clean=True): the directory is kept and
\* everything in it is removed
delete_dir(files) == {}

\* The exception leaves the worker; the pool hands it to main with the result
Throw(w, e) ==
    /\ failure' = e
    /\ wpc' = [wpc EXCEPT ![w] = "raised"]

\* main up to the creation of the pool: the cache directory has to be empty
\* (a missing one is created empty), every instance directory is a task
main ==
    /\ phase = "idle"
    /\ IF cache # {}
       THEN /\ phase' = "failed"
            /\ failure' = "AssertionError"
       ELSE /\ phase' = "running"
            /\ UNCHANGED failure
    /\ UNCHANGED <<extraction, meta, dataset, cache, queue, task, wpc>>

\* imap_unordered: a free process takes the next parameter
Take(w) ==
    /\ phase = "running"
    /\ wpc[w] = "free"
    /\ queue <= Len(dataset)
    /\ task' = [task EXCEPT ![w] = queue]
    /\ queue' = queue + 1
    /\ wpc' = [wpc EXCEPT ![w] = "start"]
    /\ UNCHANGED <<extraction, phase, meta, dataset, cache, failure>>

\* upload_instance, the files of the instance
Archive(w) ==
    /\ phase = "running"
    /\ wpc[w] = "start"
    /\ cache' = tar_archive(generate_instance_meta(cache, task[w], meta), task[w])
    /\ wpc' = [wpc EXCEPT ![w] = "archived"]
    /\ UNCHANGED <<extraction, phase, meta, dataset, queue, task, failure>>

\* upload_instance, the name parts
Names(w) ==
    /\ phase = "running"
    /\ wpc[w] = "archived"
    /\ IF dataset[task[w]] \in {"HuggingFace", "ONNX", "TorchVision"}
       THEN /\ wpc' = [wpc EXCEPT ![w] = "named"]
            /\ UNCHANGED failure
       ELSE Throw(w, "ValueError")
    /\ UNCHANGED <<extraction, phase, meta, dataset, cache, queue, task>>

\* upload_instance, the meta file is opened and posted
OpenMeta(w) ==
    /\ phase = "running"
    /\ wpc[w] = "named"
    /\ meta
    /\ IF meta_filepath(task[w]) \in cache
       THEN /\ wpc' = [wpc EXCEPT ![w] = "meta_sent"]
            /\ UNCHANGED failure
       ELSE Throw(w, "FileNotFoundError")
    /\ UNCHANGED <<extraction, phase, meta, dataset, cache, queue, task>>

\* upload_instance, the archive is opened and posted
OpenArchive(w) ==
    /\ phase = "running"
    /\ wpc[w] = IF meta THEN "meta_sent" ELSE "named"
    /\ IF archive_filepath(task[w]) \in cache
       THEN /\ wpc' = [wpc EXCEPT ![w] = "sent"]
            /\ UNCHANGED failure
       ELSE Throw(w, "FileNotFoundError")
    /\ UNCHANGED <<extraction, phase, meta, dataset, cache, queue, task>>

\* upload_instance, the item is created and the cache directory is cleaned
Clean(w) ==
    /\ phase = "running"
    /\ wpc[w] = "sent"
    /\ cache' = delete_dir(cache)
    /\ wpc' = [wpc EXCEPT ![w] = "free"]
    /\ task' = [task EXCEPT ![w] = 0]
    /\ UNCHANGED <<extraction, phase, meta, dataset, queue, failure>>

\* main receives a worker's exception from imap_unordered; leaving the
\* with block terminates the pool
Terminate ==
    /\ phase = "running"
    /\ \E w \in Workers : wpc[w] = "raised"
    /\ phase' = "failed"
    /\ UNCHANGED <<extraction, meta, dataset, cache, queue, task, wpc, failure>>

\* main has received every result
Finish ==
    /\ phase = "running"
    /\ queue > Len(dataset)
    /\ \A w \in Workers : wpc[w] = "free"
    /\ phase' = "done"
    /\ UNCHANGED <<extraction, meta, dataset, cache, queue, task, wpc, failure>>

InitUpload ==
    /\ model = ModelProto(<<>>, EmptyGraph)
    /\ entry = "none"
    /\ deep_extract = FALSE
    /\ pc = "idle"
    /\ fp_networks = <<>>
    /\ fidx = 1
    /\ deep_networks = <<>>
    /\ stack = <<>>
    /\ networks = <<>>
    /\ origin = <<>>
    /\ result = <<>>
    /\ error = "none"
    /\ runs = <<>>
    /\ phase = "idle"
    /\ meta \in BOOLEAN
    /\ dataset \in SeqsUpTo(Sources, MaxInstances)
    /\ cache \in {{}, {Stale}}
    /\ queue = 1
    /\ task = [w \in Workers |-> 0]
    /\ wpc = [w \in Workers |-> "free"]
    /\ failure = "none"

NextUpload ==
    \/ main
    \/ \E w \in Workers : Take(w)
    \/ \E w \in Workers : Archive(w)
    \/ \E w \in Workers : Names(w)
    \/ \E w \in Workers : OpenMeta(w)
    \/ \E w \in Workers : OpenArchive(w)
    \/ \E w \in Workers : Clean(w)
    \/ Terminate
    \/ Finish

Upload == InitUpload /\ [][NextUpload]_vars

\* The files worker w has written for its instance and has still to open
Pending(w) ==
    IF wpc[w] \in {"archived", "named", "meta_sent"}
    THEN {archive_filepath(task[w])}
    ELSE {}

\* C23: in the upload worker pool, under every interleaving of the workers,
\* the files a worker has created for its instance still exist when that
\* worker opens them for upload: no worker's cleanup of the cache directory
\* removes a file another worker has created and not yet uploaded, and no
\* worker fails to open its archive.
C23_OwnFilesKept ==
    /\ \A w \in Workers : Pending(w) \subseteq cache
    /\ ~meta => failure # "FileNotFoundError"

=============================================================================
